---- MODULE Spec2Model ----
(***************************************************************************)
(* Model of CerberAuth.py: the license store (LicenseDB), the request      *)
(* counters (APIStats), the public /verify handler and the admin handlers  *)
(* /api/generate, /api/delete, /api/resethwid and /api/keyinfo.            *)
(*                                                                         *)
(* Flask serves every request on its own thread, so a /verify request is   *)
(* modelled as a process whose steps are its accesses to the database:     *)
(* the SELECT of get_license (with the expiry and hwid checks made on the  *)
(* row that was read), the UPDATE that binds the hwid, and the INSERT of   *)
(* log_usage (with the counter update that follows it).  Every admin       *)
(* handler makes one database statement and is one step.  A database       *)
(* statement may raise (sqlite3.OperationalError); the handlers catch that *)
(* in their "except Exception" clause.                                     *)
(***************************************************************************)
EXTENDS Integers, Sequences, FiniteSets, TLC

\* ------------------------------------------------------------------ bounds
\* Requests served in one behaviour.
MaxRequests == 3
\* Calls of APIStats methods in one behaviour of the counters alone.
MaxCalls == 4
\* Last instant of the wall clock.
MaxNow == 4

\* Instants per calendar day: instant 0 of a day is midnight, 00:00:00.000000.
TicksPerDay == 2

Threads == {"t1", "t2"}
Keys == {"K1", "K2"}
\* Hardware ids a caller can send; the empty string is one of them.
HWIDs == {"", "A", "B"}
\* SQL NULL / Python None / JSON null in the hwid column and in request bodies.
NULL == "NULL"
\* The hwid member of a /api/generate body (JSON null gives an unbound row).
IssueHwids == {NULL, "", "A"}
\* The hwid member of a /verify body.
VerifyHwids == {"A", "B"}
Plans == {"pro"}
\* A request body that lacks the 'plan' member.
NoPlan == "<absent>"

\* A date string: ok says whether it has the form %Y-%m-%d, day is the
\* calendar day it names.
DateString(d) == [ok |-> TRUE, day |-> d]
Garbage == [ok |-> FALSE, day |-> 0]
DateInputs == {DateString(1), Garbage}

\* Authorization headers: none, a bearer token that is not the admin key, the
\* admin key.
AuthHeaders == {"", "Bearer wrong", "Bearer admin_key"}

VARIABLES
    licenses,     \* table licenses: key -> [hwid, expires_at, plan]
    usage_logs,   \* table usage_logs: sequence of rows [license_key, hwid]
    stats,        \* APIStats counters
    now,          \* datetime.now(), in instants
    pc,           \* per /verify thread: "idle", "bind" or "log"
    req,          \* per thread: the body of its request [key, hwid]
    license_info, \* per thread: the row get_license returned
    solo,         \* per thread: no other request touched its key since its SELECT
    last,         \* the request that completed in the last step, with its response
    firstValid,   \* per key: the hwids of the first verifications answered valid:true
    verifyOk,     \* number of /verify calls that returned valid:true
    verifyErr,    \* number of /verify calls that returned an error
    nreq,         \* number of requests started
    validOf,      \* per key: number of /verify calls on it that returned valid:true
    lock,         \* APIStats.lock: the thread inside "with self.lock", or "free"
    cpc,          \* per thread: its position inside an APIStats method
    ckind,        \* per thread: the APIStats call it is in
    ctmp,         \* per thread: the counter value it read for its +=
    calls,        \* per kind of APIStats call: the calls that returned
    general,      \* the "general" requests counted in request_count so far
    snapshot      \* the last result of get_stats, with general at that moment

\* The state of the server's handlers and the state of the APIStats methods.
counterVars == <<lock, cpc, ckind, ctmp, calls, general, snapshot>>

vars == <<licenses, usage_logs, stats, now, pc, req, license_info, solo, last,
          firstValid, verifyOk, verifyErr, nreq, validOf, lock, cpc, ckind, ctmp,
          calls, general, snapshot>>

\* ------------------------------------------------------------ LicenseDB
NoRow == [found |-> FALSE, hwid |-> NULL, expires_at |-> Garbage, plan |-> NoPlan]

\* get_license with a bug: a default row instead of None for an unknown key.
get_license_default_row(db, key) ==
    IF key \in DOMAIN db
    THEN [found |-> TRUE, hwid |-> db[key].hwid,
          expires_at |-> db[key].expires_at, plan |-> db[key].plan]
    ELSE [found |-> TRUE, hwid |-> NULL, expires_at |-> DateString(1), plan |-> "basic"]

\* LicenseDB.get_license: the row of the key, or None.
get_license(db, key) ==
    IF key \in DOMAIN db
    THEN [found |-> TRUE, hwid |-> db[key].hwid,
          expires_at |-> db[key].expires_at, plan |-> db[key].plan]
    ELSE NoRow

\* add_license with a bug: INSERT OR REPLACE, no row is rejected.
add_license_ok_always(db, key) == TRUE

\* LicenseDB.add_license: INSERT; the primary key rejects a second row.
add_license_ok(db, key) == key \notin DOMAIN db

add_license(db, key, hwid, expires_at, plan) ==
    IF add_license_ok(db, key)
    THEN [k \in DOMAIN db \cup {key} |->
            IF k = key
            THEN [hwid |-> hwid, expires_at |-> expires_at, plan |-> plan]
            ELSE db[k]]
    ELSE db

\* LicenseDB.delete_license: DELETE FROM licenses WHERE key = ?
delete_license(db, key) == [k \in DOMAIN db \ {key} |-> db[k]]

\* What delete_license does to the table usage_logs: nothing.
delete_license_usage(logs, key) == logs

\* reset_hwid with a bug: the empty string instead of NULL.
db_reset_hwid_empty(db, key) ==
    [k \in DOMAIN db |-> IF k = key THEN [db[k] EXCEPT !.hwid = ""] ELSE db[k]]

\* LicenseDB.reset_hwid: UPDATE licenses SET hwid = NULL WHERE key = ?
db_reset_hwid(db, key) ==
    [k \in DOMAIN db |-> IF k = key THEN [db[k] EXCEPT !.hwid = NULL] ELSE db[k]]

\* The UPDATE of verify_license: UPDATE licenses SET hwid = ? WHERE key = ?
bind_hwid(db, key, hwid) ==
    [k \in DOMAIN db |-> IF k = key THEN [db[k] EXCEPT !.hwid = hwid] ELSE db[k]]

\* log_usage with a bug: the INSERT is never committed.
log_usage_dropped(logs, key, hwid) == logs

\* LicenseDB.log_usage: INSERT INTO usage_logs
log_usage(logs, key, hwid) == Append(logs, [license_key |-> key, hwid |-> hwid])

UsageOf(logs, key) == {i \in 1..Len(logs) : logs[i].license_key = key}

\* LicenseDB.get_usage_info: the aggregate over the key's rows, or None.
get_usage_info(logs, key) ==
    IF UsageOf(logs, key) = {}
    THEN [found |-> FALSE, login_count |-> 0]
    ELSE [found |-> TRUE, login_count |-> Cardinality(UsageOf(logs, key))]

\* -------------------------------------------------------------- APIStats
NewStats == [request_count |-> 0, verify_requests |-> 0,
             admin_requests |-> 0, error_count |-> 0]

\* increment_request with a bug: the per-endpoint counters are not updated.
increment_request_total_only(s, endpoint_type) ==
    [s EXCEPT !.request_count = @ + 1]

increment_request(s, endpoint_type) ==
    [s EXCEPT !.request_count = @ + 1,
              !.verify_requests = IF endpoint_type = "verify" THEN @ + 1 ELSE @,
              !.admin_requests = IF endpoint_type = "admin" THEN @ + 1 ELSE @]

increment_error(s) == [s EXCEPT !.error_count = @ + 1]

Max(a, b) == IF a >= b THEN a ELSE b

\* The success_rate of get_stats as the fraction num/den (before the
\* formatting as a percentage).
success_rate(s) ==
    [num |-> s.request_count - s.error_count, den |-> Max(s.request_count, 1)]

get_stats(s) ==
    [total_requests |-> s.request_count, verify_requests |-> s.verify_requests,
     admin_requests |-> s.admin_requests, error_count |-> s.error_count,
     success_rate |-> success_rate(s)]

\* ------------------------------------------------------------- handlers
\* datetime.strptime(s, "%Y-%m-%d"): midnight of the day, or ValueError (-1).
strptime(s) == IF s.ok THEN s.day * TicksPerDay ELSE -1

\* is_expired with a bug: the comparison the wrong way round.
is_expired_reversed(expires_at, t) ==
    IF strptime(expires_at) = -1 THEN TRUE ELSE t < strptime(expires_at)

\* is_expired with a bug: a date that does not parse never expires.
is_expired_fail_open(expires_at, t) ==
    IF strptime(expires_at) = -1 THEN FALSE ELSE t > strptime(expires_at)

\* is_expired: datetime.now() > expiry_date; True when the parse raises.
is_expired(expires_at, t) ==
    IF strptime(expires_at) = -1 THEN TRUE ELSE t > strptime(expires_at)

\* The calendar day of an instant.
DayOf(t) == t \div TicksPerDay

\* require_admin_key with a bug: only the "Bearer " prefix is tested.
authorized_any_bearer(header) == header \in {"Bearer wrong", "Bearer admin_key"}

\* require_admin_key: the header must be "Bearer " followed by the admin key.
authorized(header) == header = "Bearer admin_key"

\* The hwid test with a bug: a bound row accepts every hwid.
hwid_mismatch_never(stored, hwid) == FALSE

\* The hwid test of verify_license on the row it read.
hwid_mismatch(stored, hwid) == stored # NULL /\ stored # hwid

\* The plan stored by generate_license: data.get('plan', 'basic').
plan_of(plan) == IF plan = NoPlan THEN "basic" ELSE plan

\* ----------------------------------------------------------------- state
\* The database file outlives the process: empty, one Unbound license, or
\* rows whose expires_at was not written by generate_license.
InitialDatabases ==
    { <<>>,
      [k \in {"K1"} |-> [hwid |-> NULL, expires_at |-> DateString(1), plan |-> "pro"]],
      [k \in Keys |-> [hwid |-> IF k = "K1" THEN NULL ELSE "A",
                       expires_at |-> Garbage, plan |-> "basic"]] }

NoRequest == [key |-> "K1", hwid |-> "A"]

\* No request completed in the last step.
NoEvent == [op |-> "none", key |-> "K1", hwid |-> NULL, res |-> "none",
            row |-> NoRow, fault |-> "none", solo |-> FALSE, count |-> 0,
            auth |-> ""]

\* The kinds of APIStats calls: increment_request(kind) and increment_error.
CallKinds == {"verify", "admin", "general", "error"}

NoSnapshot == [total_requests |-> 0, verify_requests |-> 0, admin_requests |-> 0,
               error_count |-> 0, success_rate |-> [num |-> 0, den |-> 1],
               general |-> 0]

Init ==
    /\ licenses \in InitialDatabases
    /\ usage_logs = <<>>
    /\ stats = NewStats
    /\ now = strptime(DateString(1))
    /\ pc = [t \in Threads |-> "idle"]
    /\ req = [t \in Threads |-> NoRequest]
    /\ license_info = [t \in Threads |-> NoRow]
    /\ solo = [t \in Threads |-> FALSE]
    /\ last = NoEvent
    /\ firstValid = [k \in Keys |-> {}]
    /\ verifyOk = 0
    /\ verifyErr = 0
    /\ nreq = 0
    /\ validOf = [k \in Keys |-> 0]
    /\ lock = "free"
    /\ cpc = [t \in Threads |-> "idle"]
    /\ ckind = [t \in Threads |-> "general"]
    /\ ctmp = [t \in Threads |-> 0]
    /\ calls = [k \in CallKinds |-> 0]
    /\ general = 0
    /\ snapshot = NoSnapshot

InFlight(t) == pc[t] # "idle"

\* A statement on the row of key: the /verify requests in flight on that key
\* (other than t's) are no longer alone with it.
Touched(t, key) ==
    [u \in Threads |->
        IF u # t /\ InFlight(u) /\ req[u].key = key THEN FALSE ELSE solo[u]]

\* The thread's locals after its request returned.
Returned(t) ==
    /\ pc' = [pc EXCEPT ![t] = "idle"]
    /\ req' = [req EXCEPT ![t] = NoRequest]
    /\ license_info' = [license_info EXCEPT ![t] = NoRow]

VerifyEvent(key, hwid, res, row, stmt, alone) ==
    [op |-> "verify", key |-> key, hwid |-> hwid, res |-> res, row |-> row,
     fault |-> stmt, solo |-> alone, count |-> 0, auth |-> ""]

\* A /verify request ends with an error response: stats.increment_error().
VerifyError(t, key, hwid, res, row, stmt, alone) ==
    /\ Returned(t)
    /\ last' = VerifyEvent(key, hwid, res, row, stmt, alone)
    /\ stats' = increment_error(stats)
    /\ verifyErr' = verifyErr + 1

\* The wall clock advances.
Tick ==
    /\ now < MaxNow
    /\ now' = now + 1
    /\ last' = NoEvent
    /\ UNCHANGED <<licenses, usage_logs, stats, pc, req, license_info, solo,
                   firstValid, verifyOk, verifyErr, nreq, validOf>>
    /\ UNCHANGED counterVars

\* verify_license up to and including its hwid test: the body check, the
\* SELECT of get_license, is_expired and the comparison of the stored hwid.
\* complete: the body has 'key' and 'hwid'; raises: the SELECT raises.
VerifyLookup(t, key, hwid, complete, raises) ==
    /\ pc[t] = "idle"
    /\ nreq < MaxRequests
    /\ nreq' = nreq + 1
    /\ UNCHANGED <<licenses, usage_logs, now, firstValid, verifyOk, validOf>>
    /\ UNCHANGED counterVars
    /\ IF ~complete
       THEN /\ VerifyError(t, key, hwid, "BadRequest", NoRow, "none", FALSE)
            /\ UNCHANGED solo
       ELSE IF raises
       THEN /\ VerifyError(t, key, hwid, "Internal", NoRow, "select", FALSE)
            /\ UNCHANGED solo
       ELSE LET info == get_license(licenses, key)
                alone == \A u \in Threads \ {t} : ~(InFlight(u) /\ req[u].key = key)
            IN
            IF ~info.found
            THEN /\ VerifyError(t, key, hwid, "NotFound", info, "none", alone)
                 /\ solo' = Touched(t, key)
            ELSE IF is_expired(info.expires_at, now)
            THEN /\ VerifyError(t, key, hwid, "Expired", info, "none", alone)
                 /\ solo' = Touched(t, key)
            ELSE IF hwid_mismatch(info.hwid, hwid)
            THEN /\ VerifyError(t, key, hwid, "HwidMismatch", info, "none", alone)
                 /\ solo' = Touched(t, key)
            ELSE /\ pc' = [pc EXCEPT ![t] = IF info.hwid = NULL THEN "bind" ELSE "log"]
                 /\ req' = [req EXCEPT ![t] = [key |-> key, hwid |-> hwid]]
                 /\ license_info' = [license_info EXCEPT ![t] = info]
                 /\ solo' = [Touched(t, key) EXCEPT ![t] = alone]
                 /\ last' = NoEvent
                 /\ UNCHANGED <<stats, verifyErr>>

\* verify_license, the branch license_info['hwid'] is None: the UPDATE.
VerifyBind(t, raises) ==
    /\ pc[t] = "bind"
    /\ UNCHANGED <<usage_logs, now, firstValid, verifyOk, nreq, validOf>>
    /\ UNCHANGED counterVars
    /\ IF raises
       THEN /\ VerifyError(t, req[t].key, req[t].hwid, "Internal", license_info[t],
                           "update", solo[t])
            /\ solo' = [solo EXCEPT ![t] = FALSE]
            /\ UNCHANGED licenses
       ELSE /\ licenses' = bind_hwid(licenses, req[t].key, req[t].hwid)
            /\ pc' = [pc EXCEPT ![t] = "log"]
            /\ solo' = Touched(t, req[t].key)
            /\ last' = NoEvent
            /\ UNCHANGED <<req, license_info, stats, verifyErr>>

\* verify_license from db.log_usage to the valid:true response.
VerifyLog(t, raises) ==
    /\ pc[t] = "log"
    /\ solo' = [solo EXCEPT ![t] = FALSE]
    /\ UNCHANGED <<licenses, now, nreq>>
    /\ UNCHANGED counterVars
    /\ IF raises
       THEN /\ VerifyError(t, req[t].key, req[t].hwid, "Internal", license_info[t],
                           "insert", solo[t])
            /\ UNCHANGED <<usage_logs, firstValid, verifyOk, validOf>>
       ELSE /\ usage_logs' = log_usage(usage_logs, req[t].key, req[t].hwid)
            /\ stats' = increment_request(stats, "verify")
            /\ Returned(t)
            /\ last' = VerifyEvent(req[t].key, req[t].hwid, "valid", license_info[t],
                                   "none", solo[t])
            /\ firstValid' =
                 IF license_info[t].hwid = NULL
                 THEN [firstValid EXCEPT ![req[t].key] = @ \cup {req[t].hwid}]
                 ELSE firstValid
            /\ verifyOk' = verifyOk + 1
            /\ validOf' = [validOf EXCEPT ![req[t].key] = @ + 1]
            /\ UNCHANGED verifyErr

\* The body of the last response when it is valid:true.
Response ==
    [valid |-> last.res = "valid", expires_at |-> last.row.expires_at,
     plan |-> last.row.plan]

\* ------------------------------------------------------- admin handlers
\* The response of an admin handler; errors call stats.increment_error(),
\* and a request whose header passes require_admin_key is counted as "admin".
AdminDone(op, key, res, count, header, isError) ==
    /\ last' = [NoEvent EXCEPT !.op = op, !.key = key, !.res = res, !.count = count,
                               !.auth = header]
    /\ stats' = LET s == IF authorized(header) THEN increment_request(stats, "admin") ELSE stats
                IN IF isError THEN increment_error(s) ELSE s
    /\ nreq' = nreq + 1
    /\ UNCHANGED <<now, pc, req, license_info, verifyOk, verifyErr, validOf>>
    /\ UNCHANGED counterVars

\* An admin handler that returns before it changes a table.
AdminRefused(op, key, res, header) ==
    /\ AdminDone(op, key, res, 0, header, TRUE)
    /\ UNCHANGED <<licenses, usage_logs, solo, firstValid>>

\* generate_license behind require_admin_key.  genkey is the value of
\* generate_license_key().
Issue(header, complete, hwid, expires_at, plan, genkey, raises) ==
    /\ nreq < MaxRequests
    /\ IF ~authorized(header)
       THEN AdminRefused("generate", genkey, "Unauthorized", header)
       ELSE IF ~complete
       THEN AdminRefused("generate", genkey, "BadRequest", header)
       ELSE IF strptime(expires_at) = -1
       THEN AdminRefused("generate", genkey, "InvalidDate", header)
       ELSE IF raises
       THEN AdminRefused("generate", genkey, "Internal", header)
       ELSE IF ~add_license_ok(licenses, genkey)
       THEN AdminRefused("generate", genkey, "Conflict", header)
       ELSE /\ AdminDone("generate", genkey, "ok", 0, header, FALSE)
            /\ licenses' = add_license(licenses, genkey, hwid, expires_at, plan_of(plan))
            /\ solo' = Touched("admin", genkey)
            /\ firstValid' = [firstValid EXCEPT ![genkey] = {}]
            /\ UNCHANGED usage_logs

\* delete_license (the handler) behind require_admin_key.
Delete(header, complete, key, raises) ==
    /\ nreq < MaxRequests
    /\ IF ~authorized(header)
       THEN AdminRefused("delete", key, "Unauthorized", header)
       ELSE IF ~complete
       THEN AdminRefused("delete", key, "BadRequest", header)
       ELSE IF raises
       THEN AdminRefused("delete", key, "Internal", header)
       ELSE IF key \notin DOMAIN licenses
       THEN AdminRefused("delete", key, "NotFound", header)
       ELSE /\ AdminDone("delete", key, "ok", 0, header, FALSE)
            /\ licenses' = delete_license(licenses, key)
            /\ usage_logs' = delete_license_usage(usage_logs, key)
            /\ solo' = Touched("admin", key)
            /\ firstValid' = [firstValid EXCEPT ![key] = {}]

\* reset_hwid (the handler) behind require_admin_key.
ResetBinding(header, complete, key, raises) ==
    /\ nreq < MaxRequests
    /\ IF ~authorized(header)
       THEN AdminRefused("resethwid", key, "Unauthorized", header)
       ELSE IF ~complete
       THEN AdminRefused("resethwid", key, "BadRequest", header)
       ELSE IF raises
       THEN AdminRefused("resethwid", key, "Internal", header)
       ELSE IF key \notin DOMAIN licenses
       THEN AdminRefused("resethwid", key, "NotFound", header)
       ELSE /\ AdminDone("resethwid", key, "ok", 0, header, FALSE)
            /\ licenses' = db_reset_hwid(licenses, key)
            /\ solo' = Touched("admin", key)
            /\ firstValid' = [firstValid EXCEPT ![key] = {}]
            /\ UNCHANGED usage_logs

\* get_key_info behind require_admin_key.
Inspect(header, complete, key, raises) ==
    /\ nreq < MaxRequests
    /\ UNCHANGED <<licenses, usage_logs, solo, firstValid>>
    /\ IF ~authorized(header)
       THEN AdminDone("keyinfo", key, "Unauthorized", 0, header, TRUE)
       ELSE IF ~complete
       THEN AdminDone("keyinfo", key, "BadRequest", 0, header, TRUE)
       ELSE IF raises
       THEN AdminDone("keyinfo", key, "Internal", 0, header, TRUE)
       ELSE LET info == get_usage_info(usage_logs, key) IN
            IF ~info.found
            THEN AdminDone("keyinfo", key, "no key info", 0, header, FALSE)
            ELSE AdminDone("keyinfo", key, "info", info.login_count, header, FALSE)

\* The requests to /api/delete, /api/resethwid and /api/keyinfo.  The body is
\* read only behind the authorization, the key only in a complete body, and
\* a statement runs only then: the members that are not read are fixed.
AdminInputs ==
    {i \in [header : AuthHeaders, complete : BOOLEAN, key : Keys, raises : BOOLEAN] :
        /\ ~authorized(i.header) => i.complete
        /\ ~(authorized(i.header) /\ i.complete) => ~i.raises /\ i.key = "K1"}

\* The requests to /api/generate, with the members that are not read fixed:
\* the body behind the authorization, the key generator and the INSERT
\* behind the validation of the body.
IssueInputs ==
    {i \in [header : AuthHeaders, complete : BOOLEAN, hwid : IssueHwids,
            expires_at : DateInputs, plan : Plans \cup {NoPlan}, genkey : Keys,
            raises : BOOLEAN] :
        /\ ~authorized(i.header) => i.complete
        /\ ~(authorized(i.header) /\ i.complete) => i.expires_at = DateString(1)
        /\ ~(authorized(i.header) /\ i.complete /\ strptime(i.expires_at) # -1) =>
              /\ i.hwid = NULL /\ i.plan = NoPlan /\ i.genkey = "K1" /\ ~i.raises
        /\ i.raises => i.hwid = NULL /\ i.plan = NoPlan}

\* The requests to /verify; hwid is read only in a complete body.
VerifyInputs ==
    {i \in [key : Keys, hwid : VerifyHwids, complete : BOOLEAN, raises : BOOLEAN] :
        ~i.complete => ~i.raises /\ i.key = "K1" /\ i.hwid = "A"}

\* The server hands a request to an idle thread; idle threads are alike, so
\* it is the first of them.
Dispatch(t) == pc[t] = "idle" /\ (t = "t2" => InFlight("t1"))

Next ==
    \/ Tick
    \/ \E t \in Threads, i \in VerifyInputs :
            Dispatch(t) /\ VerifyLookup(t, i.key, i.hwid, i.complete, i.raises)
    \/ \E t \in Threads, raises \in BOOLEAN : VerifyBind(t, raises)
    \/ \E t \in Threads, raises \in BOOLEAN : VerifyLog(t, raises)
    \/ \E i \in IssueInputs :
            Issue(i.header, i.complete, i.hwid, i.expires_at, i.plan, i.genkey, i.raises)
    \/ \E i \in AdminInputs : Delete(i.header, i.complete, i.key, i.raises)
    \/ \E i \in AdminInputs : ResetBinding(i.header, i.complete, i.key, i.raises)
    \/ \E i \in AdminInputs : Inspect(i.header, i.complete, i.key, i.raises)

Spec == Init /\ [][Next]_vars

\* ------------------------------------------- APIStats under concurrency
\* The methods of APIStats statement by statement, called from concurrent
\* threads: "with self.lock", each += as a read and a write, and the release
\* of the lock at the end of the block.
serverVars == <<licenses, usage_logs, now, pc, req, license_info, solo, last,
                firstValid, verifyOk, verifyErr, nreq, validOf>>

\* threading.Lock with a bug: no mutual exclusion.
lock_acquirable_always(l) == TRUE

\* threading.Lock: "with self.lock" enters when no thread holds the lock.
lock_acquirable(l) == l = "free"

\* get_stats with a bug: the counters are read outside the lock.
get_stats_enter_unlocked(l) == TRUE

\* get_stats: the counters are read inside "with self.lock".
get_stats_enter(l) == lock_acquirable(l)

CallsStarted ==
    calls["verify"] + calls["admin"] + calls["general"] + calls["error"]
    + Cardinality({t \in Threads : cpc[t] # "idle"})

\* The counter a thread is at: request_count, then the counter of its
\* endpoint_type; error_count in increment_error.
CounterAt(t) ==
    IF cpc[t] \in {"error", "error_w"} THEN "error_count"
    ELSE IF cpc[t] \in {"total", "total_w"} THEN "request_count"
    ELSE IF ckind[t] = "verify" THEN "verify_requests" ELSE "admin_requests"

\* A thread calls increment_request(kind) or increment_error().
CounterCall(t, kind) ==
    /\ cpc[t] = "idle"
    /\ CallsStarted < MaxCalls
    /\ cpc' = [cpc EXCEPT ![t] = "acquire"]
    /\ ckind' = [ckind EXCEPT ![t] = kind]
    /\ UNCHANGED <<stats, lock, ctmp, calls, general, snapshot>>
    /\ UNCHANGED serverVars

\* with self.lock:
CounterAcquire(t) ==
    /\ cpc[t] = "acquire"
    /\ lock_acquirable(lock)
    /\ lock' = t
    /\ cpc' = [cpc EXCEPT ![t] = IF ckind[t] = "error" THEN "error" ELSE "total"]
    /\ UNCHANGED <<stats, ckind, ctmp, calls, general, snapshot>>
    /\ UNCHANGED serverVars

\* The read of a +=.
CounterRead(t) ==
    /\ cpc[t] \in {"total", "kind", "error"}
    /\ ctmp' = [ctmp EXCEPT ![t] = stats[CounterAt(t)]]
    /\ cpc' = [cpc EXCEPT ![t] = IF cpc[t] = "total" THEN "total_w"
                                 ELSE IF cpc[t] = "kind" THEN "kind_w" ELSE "error_w"]
    /\ UNCHANGED <<stats, lock, ckind, calls, general, snapshot>>
    /\ UNCHANGED serverVars

\* The write of a +=.
CounterWrite(t) ==
    /\ cpc[t] \in {"total_w", "kind_w", "error_w"}
    /\ stats' = [stats EXCEPT ![CounterAt(t)] = ctmp[t] + 1]
    /\ cpc' = [cpc EXCEPT ![t] =
                 IF cpc[t] = "total_w" /\ ckind[t] \in {"verify", "admin"}
                 THEN "kind" ELSE "release"]
    /\ general' = IF cpc[t] = "total_w" /\ ckind[t] = "general"
                  THEN general + 1 ELSE general
    /\ ctmp' = [ctmp EXCEPT ![t] = 0]
    /\ UNCHANGED <<lock, ckind, calls, snapshot>>
    /\ UNCHANGED serverVars

\* The end of the "with" block: the lock is released and the method returns.
CounterRelease(t) ==
    /\ cpc[t] = "release"
    /\ lock' = "free"
    /\ cpc' = [cpc EXCEPT ![t] = "idle"]
    /\ calls' = [calls EXCEPT ![ckind[t]] = @ + 1]
    /\ ckind' = [ckind EXCEPT ![t] = "general"]
    /\ UNCHANGED <<stats, ctmp, general, snapshot>>
    /\ UNCHANGED serverVars

\* get_stats, called by the dashboard thread.
Snapshot ==
    /\ get_stats_enter(lock)
    /\ snapshot' = [total_requests |-> get_stats(stats).total_requests,
                    verify_requests |-> get_stats(stats).verify_requests,
                    admin_requests |-> get_stats(stats).admin_requests,
                    error_count |-> get_stats(stats).error_count,
                    success_rate |-> get_stats(stats).success_rate,
                    general |-> general]
    /\ UNCHANGED <<stats, lock, cpc, ckind, ctmp, calls, general>>
    /\ UNCHANGED serverVars

NextCounters ==
    \/ \E t \in Threads, kind \in CallKinds : CounterCall(t, kind)
    \/ \E t \in Threads : CounterAcquire(t)
    \/ \E t \in Threads : CounterRead(t)
    \/ \E t \in Threads : CounterWrite(t)
    \/ \E t \in Threads : CounterRelease(t)
    \/ Snapshot

SpecCounters == Init /\ [][NextCounters]_vars

\* ------------------------------------------------------------ properties
\* The last step completed a /verify request whose body had both members.
Verified == last.op = "verify" /\ last.res # "BadRequest"

\* The spec's Expired: the current date is later than expiresAt.
DateExpired(expires_at, t) == expires_at.ok /\ DayOf(t) > expires_at.day

\* The step starts a /verify request of thread t that goes on to its UPDATE
\* or INSERT.
Proceeds(t) == pc[t] = "idle" /\ pc'[t] # "idle"

\* The step is the first step of a /verify request that ends in that step.
AnsweredAtLookup == last'.op = "verify" /\ nreq' = nreq + 1

\* C1: once the stored hwid of a key is non-null it keeps that value in every
\* later state until a ResetBinding or Delete of that key is applied; no
\* Verify step changes a non-null stored hwid.
C1_BoundHwidKept ==
    [][\A k \in DOMAIN licenses :
          licenses[k].hwid # NULL =>
            \/ k \in DOMAIN licenses' /\ licenses'[k].hwid = licenses[k].hwid
            \/ last'.op \in {"resethwid", "delete"} /\ last'.key = k /\ last'.res = "ok"
      ]_vars

\* C2: of the first verifications of a key (calls that found it Unbound) with
\* different hardware ids, and no ResetBinding in between, at most one is
\* answered valid:true.
C2_OneFirstVerificationWins ==
    \A k \in Keys : Cardinality(firstValid[k]) <= 1

\* C3: a license issued with hwid "" is Unbound: a Verify(K, h) that finds
\* the issued "" still stored (none other running on K, no statement raising,
\* the license not expired) returns valid:true with the issued expires_at and
\* plan and leaves h stored.
C3_EmptyHwidIsUnbound ==
    (/\ Verified /\ last.row.found /\ last.row.hwid = ""
     /\ last.solo /\ last.fault = "none" /\ last.res # "Expired")
    => /\ last.res = "valid"
       /\ last.key \in DOMAIN licenses
       /\ licenses[last.key].hwid = last.hwid
       /\ Response.expires_at = licenses[last.key].expires_at
       /\ Response.plan = licenses[last.key].plan

\* C4: a Verify(K, h) that finds a non-expired row whose hwid is non-null and
\* differs from h returns HwidMismatch and changes neither table.
C4_MismatchChangesNothing ==
    [][(/\ last'.op = "verify" /\ last'.row.found /\ last'.fault = "none"
        /\ ~is_expired(last'.row.expires_at, now')
        /\ last'.row.hwid # NULL /\ last'.row.hwid # last'.hwid)
       => /\ last'.res = "HwidMismatch"
          /\ licenses' = licenses
          /\ usage_logs' = usage_logs
      ]_vars

C4_Witness ==
    /\ Verified /\ last.res = "HwidMismatch"
    /\ last.key \in DOMAIN licenses
    /\ licenses[last.key].hwid \in HWIDs \ {last.hwid}
    /\ ~is_expired(licenses[last.key].expires_at, now)

\* C5: a Verify(K, h) on a license that is expired when the call reads it (the
\* date is later than expires_at) goes no further than the expiry check: it
\* returns Expired whatever the stored hwid is (Internal if the SELECT
\* raised), binds nothing and appends no usage row.
C5_ExpiredIsRefused ==
    [][/\ \A t \in Threads :
            Proceeds(t) => ~DateExpired(licenses[req'[t].key].expires_at, now)
       /\ (/\ AnsweredAtLookup /\ last'.res # "BadRequest"
           /\ last'.key \in DOMAIN licenses
           /\ DateExpired(licenses[last'.key].expires_at, now))
          => /\ \/ last'.res = "Expired"
                \/ last'.res = "Internal" /\ last'.fault = "select"
             /\ licenses' = licenses
             /\ usage_logs' = usage_logs
      ]_vars

C5_Witness ==
    /\ Verified /\ last.res = "Expired"
    /\ DateExpired(last.row.expires_at, now)
    /\ last.row.hwid = last.hwid

C5_WitnessUnbound ==
    /\ Verified /\ last.res = "Expired"
    /\ DateExpired(last.row.expires_at, now)
    /\ last.row.hwid = NULL
    /\ licenses[last.key].hwid = NULL

\* C6: a Verify(K, h) on a key without a row returns NotFound (Internal if the
\* SELECT raised), never valid:true; it goes no further than the lookup, and
\* inserts no row and no usage row.
C6_UnknownKeyNotFound ==
    [][/\ \A t \in Threads : Proceeds(t) => req'[t].key \in DOMAIN licenses
       /\ (/\ AnsweredAtLookup /\ last'.res # "BadRequest"
           /\ last'.key \notin DOMAIN licenses)
          => /\ \/ last'.res = "NotFound"
                \/ last'.res = "Internal" /\ last'.fault = "select"
             /\ licenses' = licenses
             /\ usage_logs' = usage_logs
      ]_vars

C6_Witness ==
    /\ Verified /\ last.res = "NotFound"
    /\ last.key \notin DOMAIN licenses
    /\ UsageOf(usage_logs, last.key) # {}

\* C7: a ResetBinding(K) that returns ok leaves the stored hwid null, and a
\* Verify(K, h2) that finds the hwid null (the license not expired, no other
\* request on K meanwhile, no statement raising) returns valid:true and
\* leaves h2 stored.
C7_ResetThenRebind ==
    [][/\ (last'.op = "resethwid" /\ last'.res = "ok")
          => /\ last'.key \in DOMAIN licenses'
             /\ licenses'[last'.key].hwid = NULL
       /\ (/\ last'.op = "verify" /\ last'.row.found /\ last'.row.hwid = NULL
           /\ last'.solo /\ last'.fault = "none" /\ last'.res # "Expired")
          => /\ last'.res = "valid"
             /\ last'.key \in DOMAIN licenses'
             /\ licenses'[last'.key].hwid = last'.hwid
      ]_vars

\* A Verify(K, h2) answered valid:true on an Unbound row that had been
\* verified with another hwid before, behind a successful admin request.
C7_Witness ==
    /\ Verified /\ last.res = "valid" /\ last.solo /\ last.row.hwid = NULL
    /\ licenses[last.key].hwid = last.hwid
    /\ stats.admin_requests = 1 /\ stats.error_count = 0
    /\ \E i \in UsageOf(usage_logs, last.key) : usage_logs[i].hwid # last.hwid

Quiescent == \A t \in Threads : pc[t] = "idle"

\* C8: from fresh counters, after N Verify calls that succeeded and M that
\* failed and no other request, the snapshot reports verify_requests = N,
\* error_count = M and success_rate = N / (N + M), within the rounding of
\* the one-decimal percentage.
C8_SnapshotAfterVerifies ==
    (Quiescent /\ nreq = verifyOk + verifyErr /\ nreq > 0)
    => LET snap == get_stats(stats)
           diff == snap.success_rate.num * nreq - verifyOk * snap.success_rate.den
       IN /\ snap.verify_requests = verifyOk
          /\ snap.error_count = verifyErr
          /\ 2000 * (IF diff < 0 THEN -diff ELSE diff) <= snap.success_rate.den * nreq

\* C9: after a Delete(K) that succeeded no usage row of K is left, and
\* Inspect(K) finds no data.
C9_DeleteCascades ==
    (last.op = "delete" /\ last.res = "ok")
    => /\ UsageOf(usage_logs, last.key) = {}
       /\ ~get_usage_info(usage_logs, last.key).found

\* C10: a Verify call whose usage-row INSERT raised, every check before it
\* having passed, still returns valid:true.
C10_UsageFailureSwallowed ==
    (last.op = "verify" /\ last.fault = "insert") => last.res = "valid"

AdminOps == {"generate", "delete", "resethwid", "keyinfo"}

\* C11: an admin request without the admin key as bearer credential returns
\* Unauthorized, adds exactly 1 to error_count, leaves admin_requests and
\* request_count as they were and changes neither table.
C11_UnauthorizedCountsOnlyError ==
    [][(last'.op \in AdminOps /\ last'.auth # "Bearer admin_key")
       => /\ last'.res = "Unauthorized"
          /\ stats' = [stats EXCEPT !.error_count = @ + 1]
          /\ licenses' = licenses
          /\ usage_logs' = usage_logs
      ]_vars

C11_Witness ==
    /\ last.op = "delete" /\ last.res = "Unauthorized" /\ last.auth = "Bearer wrong"
    /\ last.key \in DOMAIN licenses
    /\ stats.error_count = 2 /\ stats.admin_requests = 1

\* C12: in every quiescent state the usage rows of every key that has a
\* license are as many as the Verify calls on it that returned valid:true,
\* and a Verify call that returns an error appends no usage row.
C12_UsageRowPerValidVerify ==
    [][/\ Quiescent' =>
            \A k \in DOMAIN licenses' :
                Cardinality(UsageOf(usage_logs', k)) = validOf'[k]
       /\ (last'.op = "verify" /\ last'.res # "valid") => usage_logs' = usage_logs
      ]_vars

C12_Witness ==
    /\ Quiescent /\ verifyErr >= 1
    /\ \E k \in DOMAIN licenses :
          validOf[k] = 2 /\ Cardinality(UsageOf(usage_logs, k)) = 2

\* C13: expiry is decided on calendar dates: a Verify that came to the expiry
\* check returns Expired exactly when the current date is later than
\* expires_at, so not on the day expires_at itself, whatever the time of day.
C13_ExpiryByCalendarDate ==
    (/\ Verified /\ last.row.found /\ last.row.expires_at.ok
     /\ last.res \in {"Expired", "HwidMismatch"})
    => (last.res = "Expired" <=> DateExpired(last.row.expires_at, now))

\* C15: a Verify call that returns Internal has applied nothing: with no
\* other request on the key meanwhile, the stored hwid is the one the call
\* found.
C15_InternalAppliesNothing ==
    (/\ last.op = "verify" /\ last.res = "Internal"
     /\ last.row.found /\ last.solo /\ last.key \in DOMAIN licenses)
    => licenses[last.key].hwid = last.row.hwid

\* C16: a Verify call that completes adds 1 to exactly one of verify_requests
\* (together with request_count, when it returns valid:true) and error_count
\* (when it returns an error), and changes no other counter.
C16_OneCounterPerVerify ==
    [][last'.op = "verify"
       => IF last'.res = "valid"
          THEN stats' = [stats EXCEPT !.request_count = @ + 1,
                                      !.verify_requests = @ + 1]
          ELSE stats' = [stats EXCEPT !.error_count = @ + 1]
      ]_vars

C16_Witness ==
    /\ last.op = "verify" /\ last.res = "valid"
    /\ stats.verify_requests = 1 /\ stats.error_count = 1 /\ verifyErr = 1

\* C17: an Issue whose generated key is already stored fails with Conflict,
\* counts one error and leaves the table licenses, and with it the stored
\* license of that key, unchanged.
C17_CollisionIsConflict ==
    [][(/\ last'.op = "generate" /\ last'.key \in DOMAIN licenses
        /\ last'.res \notin {"Unauthorized", "BadRequest", "InvalidDate", "Internal"})
       => /\ last'.res = "Conflict"
          /\ licenses' = licenses
          /\ stats'.error_count = stats.error_count + 1
      ]_vars

C17_Witness ==
    /\ last.op = "generate" /\ last.res = "Conflict"
    /\ last.key \in DOMAIN licenses
    /\ licenses[last.key].hwid \in VerifyHwids

\* C18: a Verify(K, h) on a license whose stored expires_at does not parse
\* goes no further than the expiry check: it returns Expired whatever the
\* stored hwid is (Internal if the SELECT raised) and binds nothing.
C18_UnparseableDateIsExpired ==
    [][/\ \A t \in Threads : Proceeds(t) => licenses[req'[t].key].expires_at.ok
       /\ (/\ AnsweredAtLookup /\ last'.res # "BadRequest"
           /\ last'.key \in DOMAIN licenses
           /\ ~licenses[last'.key].expires_at.ok)
          => /\ \/ last'.res = "Expired"
                \/ last'.res = "Internal" /\ last'.fault = "select"
             /\ licenses' = licenses
             /\ usage_logs' = usage_logs
      ]_vars

C18_Witness ==
    /\ Verified /\ last.res = "Expired"
    /\ ~last.row.expires_at.ok
    /\ last.row.hwid = last.hwid
    /\ ~DateExpired(last.row.expires_at, now)

C18_WitnessUnbound ==
    /\ Verified /\ last.res = "Expired"
    /\ ~last.row.expires_at.ok
    /\ licenses[last.key].hwid = NULL

\* C20: error_count never exceeds request_count, so the success rate of the
\* snapshot lies between 0 and 1.
C20_SuccessRateInRange ==
    /\ stats.error_count <= stats.request_count
    /\ get_stats(stats).success_rate.num >= 0
    /\ get_stats(stats).success_rate.num <= get_stats(stats).success_rate.den

CountersIdle == \A t \in Threads : cpc[t] = "idle"

\* C14: no counter update is lost: when every call has returned, after a
\* calls of increment_request("verify"), b of increment_request("admin"), c
\* of increment_request("general") and e of increment_error from concurrent
\* threads, request_count = a + b + c, verify_requests = a,
\* admin_requests = b and error_count = e.
C14_NoLostUpdate ==
    CountersIdle =>
        stats = [request_count |-> calls["verify"] + calls["admin"] + calls["general"],
                 verify_requests |-> calls["verify"],
                 admin_requests |-> calls["admin"],
                 error_count |-> calls["error"]]

C14_Witness ==
    /\ CountersIdle
    /\ \A k \in CallKinds : calls[k] = 1
    /\ stats.request_count = 3 /\ stats.error_count = 1

\* C19: what a snapshot returns satisfies total_requests = verify_requests +
\* admin_requests + the general requests counted: it never holds a
\* request_count incremented without its per-endpoint counter.
C19_SnapshotNotTorn ==
    snapshot.total_requests =
        snapshot.verify_requests + snapshot.admin_requests + snapshot.general

\* A snapshot taken between two calls, while a later call has incremented
\* request_count and not yet its per-endpoint counter.
C19_Witness ==
    /\ snapshot.total_requests = 2 /\ snapshot.verify_requests = 1
    /\ snapshot.general = 1
    /\ \E t \in Threads : cpc[t] = "kind" /\ stats.request_count = 3

====
